---- MODULE Spec2Model ----
(***************************************************************************)
(* Model of the expression-to-code pipeline of itdatabase.py:              *)
(* parse_assignments, ordered_identifiers, the dependency resolution loop  *)
(* of build_response, generate_algo and generate_pascal; and of its        *)
(* numeral pipeline: detect_number_system and convert_number_to_bases;     *)
(* and of the handlers of the bot with the data file they share.           *)
(*                                                                         *)
(* A text (Python str) is a sequence of one-character strings.             *)
(***************************************************************************)
EXTENDS Integers, Sequences, FiniteSets, TLC

VARIABLES expr, pc, error, assignments, input_vars, dep_map, remaining,
          ordered_lhs, ordered_set, ordered_assignments, variables,
          algo_snippet, pascal_snippet,
          call, raw, value, base, conversions, npc, nerror,
          file, lock, chat, tpc, handler, section, arg, data, sent, handled

\* State of one call of build_response.
expression_vars == <<expr, pc, error, assignments, input_vars, dep_map, remaining,
                     ordered_lhs, ordered_set, ordered_assignments, variables,
                     algo_snippet, pascal_snippet>>

\* State of one numeral request: the mode of the request, the text given
\* to detect_number_system, the integer and base it returns, and the
\* fields convert_number_to_bases builds from the integer.
numeral_vars == <<call, raw, value, base, conversions, npc, nerror>>

\* State of the bot: the content of data.json and the holder of DATA_LOCK;
\* and per user, the chat_data of the user's chat, the position of the
\* handler task serving the user's update, the handler it runs, the locked
\* section it is in, the input of the update, the task's local `data`, the
\* replies sent for the update, and the number of updates taken.
session_vars == <<file, lock, chat, tpc, handler, section, arg, data, sent, handled>>

vars == <<expression_vars, numeral_vars, session_vars>>

----------------------------------------------------------------------------
(* Characters                                                              *)

UpperLetters == <<"A","B","C","D","E","F","G","H","I","J","K","L","M",
                  "N","O","P","Q","R","S","T","U","V","W","X","Y","Z">>

LowerLetters == <<"a","b","c","d","e","f","g","h","i","j","k","l","m",
                  "n","o","p","q","r","s","t","u","v","w","x","y","z">>

Digits == {"0","1","2","3","4","5","6","7","8","9"}

Range(s) == {s[i] : i \in DOMAIN s}

AsciiLetters == Range(UpperLetters) \cup Range(LowerLetters)

\* Characters outside ASCII that Python's Unicode-aware \w accepts
\* (letters and digits of other scripts); two representatives, written by
\* code point: U+00E9 (e with acute accent) and U+0663 (Arabic-Indic three).
UnicodeWordChars == {"U+00E9", "U+0663"}

\* str.strip() without arguments removes these from both ends.
Whitespace == {" ", "\t", "\n", "\r"}

\* The separator class [;\n] of the split pattern.
Separators == {";", "\n"}

\* First character of IDENTIFIER_PATTERN: [A-Za-z_]
IsIdentStart(c) == c \in AsciiLetters \cup {"_"}

\* Following characters of IDENTIFIER_PATTERN: \w on a str pattern
IsWordChar(c) == c \in AsciiLetters \cup Digits \cup {"_"} \cup UnicodeWordChars

\* str.lower() on one character
LowerChar(c) ==
    IF c \in Range(UpperLetters)
    THEN LowerLetters[CHOOSE i \in DOMAIN UpperLetters : UpperLetters[i] = c]
    ELSE c

\* str.lower()
Lower(s) == [i \in DOMAIN s |-> LowerChar(s[i])]

----------------------------------------------------------------------------
(* Sequence helpers standing for Python list and str primitives            *)

\* x in list
InSeq(x, s) == \E i \in DOMAIN s : s[i] = x

\* list.remove(x): drops the first occurrence of x
RemoveFirst(s, x) ==
    LET i == CHOOSE k \in DOMAIN s : s[k] = x /\ \A j \in 1..(k-1) : s[j] # x
    IN  SubSeq(s, 1, i-1) \o SubSeq(s, i+1, Len(s))

\* str.strip()
RECURSIVE LStrip(_)
LStrip(s) ==
    IF s # <<>> /\ Head(s) \in Whitespace THEN LStrip(Tail(s)) ELSE s

RECURSIVE RStrip(_)
RStrip(s) ==
    IF s # <<>> /\ s[Len(s)] \in Whitespace
    THEN RStrip(SubSeq(s, 1, Len(s)-1)) ELSE s

Strip(s) == RStrip(LStrip(s))

\* re.split(r"[;\n]+", expr): the pieces between maximal runs of
\* separators; a run at either end of the text yields an empty piece there.
RECURSIVE SplitFrom(_, _, _, _)
SplitFrom(s, i, cur, inRun) ==
    IF i > Len(s) THEN <<cur>>
    ELSE IF s[i] \in Separators
         THEN IF inRun THEN SplitFrom(s, i+1, cur, TRUE)
              ELSE <<cur>> \o SplitFrom(s, i+1, <<>>, TRUE)
         ELSE SplitFrom(s, i+1, Append(cur, s[i]), FALSE)

SplitSegments(s) == SplitFrom(s, 1, <<>>, FALSE)

\* A variant of FirstEq that cuts at the last "=" (str.rsplit("=", 1))
LastEq(s) == CHOOSE k \in DOMAIN s : s[k] = "=" /\ \A j \in (k+1)..Len(s) : s[j] # "="

\* Index of the first "=" of s (str.split("=", 1) cuts there)
FirstEq(s) == CHOOSE k \in DOMAIN s : s[k] = "=" /\ \A j \in 1..(k-1) : s[j] # "="

\* IDENTIFIER_PATTERN.findall / finditer: leftmost, non-overlapping,
\* greedy matches of [A-Za-z_]\w*
RECURSIVE MatchEnd(_, _)
MatchEnd(s, i) ==
    IF i + 1 <= Len(s) /\ IsWordChar(s[i+1]) THEN MatchEnd(s, i+1) ELSE i

RECURSIVE FindAllFrom(_, _)
FindAllFrom(s, i) ==
    IF i > Len(s) THEN <<>>
    ELSE IF IsIdentStart(s[i])
         THEN LET e == MatchEnd(s, i)
              IN  <<SubSeq(s, i, e)>> \o FindAllFrom(s, e+1)
         ELSE FindAllFrom(s, i+1)

FindAll(s) == FindAllFrom(s, 1)

----------------------------------------------------------------------------
(* Program constants                                                       *)

RESERVED_WORDS ==
    { <<"s","i","n">>, <<"c","o","s">>, <<"t","a","n">>,
      <<"s","q","r","t">>, <<"s","q","r">>, <<"l","n">>,
      <<"e","x","p">>, <<"l","o","g">>, <<"a","b","s">> }

\* The three failures parse_assignments raises, named as in the
\* specification (the code raises ValueError with three different texts).
MissingEquals == "MissingEquals"
EmptyTarget == "EmptyTarget"
NoAssignments == "NoAssignments"
NoError == "none"

----------------------------------------------------------------------------
(* parse_assignments                                                       *)

RECURSIVE ParseSegments(_, _, _)
ParseSegments(segs, i, acc) ==
    IF i > Len(segs)
    THEN IF acc = <<>>
         THEN [err |-> NoAssignments, assignments |-> <<>>]
         ELSE [err |-> NoError, assignments |-> acc]
    ELSE LET stripped == Strip(segs[i]) IN
         IF stripped = <<>> THEN ParseSegments(segs, i+1, acc)
         ELSE IF ~ InSeq("=", stripped)
         THEN [err |-> MissingEquals, assignments |-> <<>>]
         ELSE LET k   == FirstEq(stripped)
                  lhs == Strip(SubSeq(stripped, 1, k-1))
                  rhs == Strip(SubSeq(stripped, k+1, Len(stripped)))
              IN  IF lhs = <<>>
                  THEN [err |-> EmptyTarget, assignments |-> <<>>]
                  ELSE ParseSegments(segs, i+1,
                                     Append(acc, [lhs |-> lhs, rhs |-> rhs]))

\* A variant of parse_assignments that looks for a segment without "=" in
\* a first pass over all the segments
parse_assignmentsEqualsFirst(text) ==
    LET segs == SplitSegments(text) IN
    IF \E i \in DOMAIN segs :
          Strip(segs[i]) # <<>> /\ ~ InSeq("=", Strip(segs[i]))
    THEN [err |-> MissingEquals, assignments |-> <<>>]
    ELSE ParseSegments(segs, 1, <<>>)

parse_assignments(text) == ParseSegments(SplitSegments(text), 1, <<>>)

----------------------------------------------------------------------------
(* ordered_identifiers                                                     *)

\* The inner loop over the matches of one expression; seen is the
\* OrderedDict's key list.
RECURSIVE AddNames(_, _, _)
AddNames(names, i, seen) ==
    IF i > Len(names) THEN seen
    ELSE IF Lower(names[i]) \in RESERVED_WORDS \/ InSeq(names[i], seen)
         THEN AddNames(names, i+1, seen)
         ELSE AddNames(names, i+1, Append(seen, names[i]))

RECURSIVE ScanExpressions(_, _, _)
ScanExpressions(expressions, i, seen) ==
    IF i > Len(expressions) THEN seen
    ELSE ScanExpressions(expressions, i+1,
                         AddNames(FindAll(expressions[i]), 1, seen))

ordered_identifiers(expressions) == ScanExpressions(expressions, 1, <<>>)

----------------------------------------------------------------------------
(* generate_algo and generate_pascal                                       *)

\* sep.join(items)
RECURSIVE Join(_, _)
Join(sep, items) ==
    IF items = <<>> THEN <<>>
    ELSE IF Len(items) = 1 THEN items[1]
    ELSE items[1] \o sep \o Join(sep, Tail(items))

\* The concatenation of the line lists that the iterations of one loop of
\* a renderer append
RECURSIVE Flatten(_)
Flatten(groups) ==
    IF groups = <<>> THEN <<>> ELSE Head(groups) \o Flatten(Tail(groups))

AlgoInputLine(var_name) ==
    <<<<" "," "," "," ","E","c","r","i","r","e","(","\"">> \o var_name \o <<" ",":"," ","\"",")",";"," ","L","i","r","e","(">> \o var_name \o <<")",";">>>>

AlgoNoInputLine == <<" "," "," "," ","/","/"," ","P","a","s"," ","d","'","e","n","t","r","e","e","s"," ","s","u","p","p","l","e","m","e","n","t","a","i","r","e","s">>

AlgoAssignLine(lhs, rhs) == <<" "," "," "," ">> \o lhs \o <<" ",":","="," ">> \o rhs \o <<";">>

AlgoPrintLine(lhs) == <<" "," "," "," ","E","c","r","i","r","e","(","\"">> \o lhs \o <<" ","="," ","\"",","," ">> \o lhs \o <<")",";">>

AlgoStatementLines(a) == <<AlgoAssignLine(a.lhs, a.rhs), AlgoPrintLine(a.lhs)>>

\* Variant of generate_algo_lines that emits the statements before the input reads.
generate_algo_linesStatementsFirst(name, assigns, inputs, vrs) ==
    LET vars_line == Join(<<","," ">>, vrs)
    IN  << <<"A","l","g","o"," ">> \o name \o <<";">>,
           <<"V","a","r"," ">> \o vars_line \o <<" ",":"," ","R","e","e","l",";">>,
           <<"D","e","b","u","t">> >>
        \o Flatten([i \in DOMAIN assigns |-> AlgoStatementLines(assigns[i])])
        \o (IF inputs # <<>> THEN Flatten([i \in DOMAIN inputs |-> AlgoInputLine(inputs[i])])
                             ELSE <<AlgoNoInputLine>>)
        \o << <<"F","i","n",".">> >>

generate_algo_lines(name, assigns, inputs, vrs) ==
    LET vars_line == Join(<<","," ">>, vrs)
    IN  << <<"A","l","g","o"," ">> \o name \o <<";">>,
           <<"V","a","r"," ">> \o vars_line \o <<" ",":"," ","R","e","e","l",";">>,
           <<"D","e","b","u","t">> >>
        \o (IF inputs # <<>> THEN Flatten([i \in DOMAIN inputs |-> AlgoInputLine(inputs[i])])
                             ELSE <<AlgoNoInputLine>>)
        \o Flatten([i \in DOMAIN assigns |-> AlgoStatementLines(assigns[i])])
        \o << <<"F","i","n",".">> >>

generate_algo(name, assigns, inputs, vrs) ==
    Join(<<"\n">>, generate_algo_lines(name, assigns, inputs, vrs))

PascalInputLine(var_name) ==
    <<<<" "," ","W","r","i","t","e","(","'">> \o var_name \o <<" ",":"," ","'",")",";"," ","R","e","a","d","L","n","(">> \o var_name \o <<")",";">>>>

PascalNoInputLine == <<" "," ","{"," ","P","a","s"," ","d","'","e","n","t","r","e","e","s"," ","a"," ","l","i","r","e"," ","}">>

PascalAssignLine(lhs, rhs) == <<" "," ">> \o lhs \o <<" ",":","="," ">> \o rhs \o <<";">>

PascalPrintLine(lhs) == <<" "," ","W","r","i","t","e","L","n","(","'">> \o lhs \o <<" ","="," ","'",","," ">> \o lhs \o <<")",";">>

PascalStatementLines(a) ==
    <<PascalAssignLine(a.lhs, a.rhs), PascalPrintLine(a.lhs)>>

generate_pascal_lines(program, assigns, inputs, vrs) ==
    LET vars_block  == Join(<<","," ">>, vrs)
        input_lines == IF inputs # <<>> THEN Flatten([i \in DOMAIN inputs |-> PascalInputLine(inputs[i])])
                                        ELSE <<PascalNoInputLine>>
    IN  << <<"p","r","o","g","r","a","m"," ">> \o program \o <<";">>,
           <<>>,
           <<"v","a","r">>,
           <<" "," ">> \o vars_block \o <<":"," ","R","e","a","l",";">>,
           <<>>,
           <<"b","e","g","i","n">> >>
        \o input_lines
        \o Flatten([i \in DOMAIN assigns |-> PascalStatementLines(assigns[i])])
        \o << <<"e","n","d",".">> >>

generate_pascal(program, assigns, inputs, vrs) ==
    Join(<<"\n">>, generate_pascal_lines(program, assigns, inputs, vrs))

\* handle_text calls build_response with both names set to "Calcul",
\* which is also the default of the two parameters.
DefaultName == <<"C","a","l","c","u","l">>

----------------------------------------------------------------------------
(* build_response, lines 199-215: names, input variables, dependency map   *)

assigned_vars_of(assigns) == [i \in DOMAIN assigns |-> assigns[i].lhs]

rhs_texts_of(assigns) == [i \in DOMAIN assigns |-> assigns[i].rhs]

input_vars_of(assigns) ==
    LET assigned_vars == assigned_vars_of(assigns)
        identifiers   == ordered_identifiers(rhs_texts_of(assigns) \o assigned_vars)
        assigned_set  == Range(assigned_vars)
        IsInput(name) == name \notin assigned_set /\ ~ InSeq(name, assigned_vars)
    IN  SelectSeq(identifiers, IsInput)

\* The list the comprehension builds for one right-hand side
deps_of(rhs, assigned_set) ==
    LET IsAssigned(name) == name \in assigned_set
    IN  SelectSeq(FindAll(rhs), IsAssigned)

\* Index of the last assignment whose target is lhs: in a dict
\* comprehension a later item with the same key replaces the earlier value.
LastIndex(assigns, lhs) ==
    CHOOSE i \in DOMAIN assigns :
        /\ assigns[i].lhs = lhs
        /\ \A j \in (i+1)..Len(assigns) : assigns[j].lhs # lhs

dep_map_of(assigns) ==
    LET assigned_set == Range(assigned_vars_of(assigns))
    IN  [lhs \in assigned_set |->
            deps_of(assigns[LastIndex(assigns, lhs)].rhs, assigned_set)]

lhs_to_rhs_of(assigns) ==
    [lhs \in Range(assigned_vars_of(assigns)) |->
        assigns[LastIndex(assigns, lhs)].rhs]

----------------------------------------------------------------------------
(* build_response, lines 217-228: one pass of the while loop               *)

\* What build_response itself could raise after parsing: list.remove of a
\* value that is not in the list (line 224), and a missing key (line 231).
RemoveError == "ValueError: list.remove(x): x not in list"
KeyError == "KeyError"

\* The body of "for lhs in list(remaining)" from position i of the snapshot
\* on; st carries remaining, ordered_lhs, ordered_set and progress, and
\* raised tells that remaining.remove(lhs) raised, which ends the scan.
RECURSIVE ScanFrom(_, _, _, _)
ScanFrom(snapshot, i, dmap, st) ==
    IF i > Len(snapshot) \/ st.raised THEN st
    ELSE LET lhs  == snapshot[i]
             deps == IF lhs \in DOMAIN dmap THEN dmap[lhs] ELSE <<>>
         IN  IF \A k \in DOMAIN deps : deps[k] \in st.ordered_set
             THEN IF InSeq(lhs, st.remaining)
                  THEN ScanFrom(snapshot, i+1, dmap,
                          [remaining   |-> RemoveFirst(st.remaining, lhs),
                           ordered_lhs |-> Append(st.ordered_lhs, lhs),
                           ordered_set |-> st.ordered_set \cup {lhs},
                           progress    |-> TRUE,
                           raised      |-> FALSE])
                  ELSE [remaining   |-> st.remaining,
                        ordered_lhs |-> Append(st.ordered_lhs, lhs),
                        ordered_set |-> st.ordered_set \cup {lhs},
                        progress    |-> st.progress,
                        raised      |-> TRUE]
             ELSE ScanFrom(snapshot, i+1, dmap, st)

\* A variant of ScanPass that schedules every remaining target without
\* looking at its dependencies
ScanPassNoDepCheck(rem, olhs, oset, dmap) ==
    [remaining |-> <<>>, ordered_lhs |-> olhs \o rem,
     ordered_set |-> oset \cup Range(rem), progress |-> TRUE,
     raised |-> FALSE]

\* A variant of ScanPass that scans the targets already ordered as well as
\* the remaining ones
ScanPassRescan(rem, olhs, oset, dmap) ==
    ScanFrom(olhs \o rem, 1, dmap,
             [remaining |-> rem, ordered_lhs |-> olhs, ordered_set |-> oset,
              progress |-> FALSE, raised |-> FALSE])

\* Variant of ScanPass that scans the snapshot from its last name to its
\* first.
ScanPassBackwards(rem, olhs, oset, dmap) ==
    ScanFrom([i \in 1..Len(rem) |-> rem[Len(rem) + 1 - i]], 1, dmap,
             [remaining |-> rem, ordered_lhs |-> olhs, ordered_set |-> oset,
              progress |-> FALSE, raised |-> FALSE])

ScanPass(rem, olhs, oset, dmap) ==
    ScanFrom(rem, 1, dmap,
             [remaining |-> rem, ordered_lhs |-> olhs, ordered_set |-> oset,
              progress |-> FALSE, raised |-> FALSE])

----------------------------------------------------------------------------
(* Inputs                                                                  *)

MaxStmts == 3
MaxRawLen == 5

IdTargets == { <<"A">>, <<"B">>, <<"H">> }

Rhss == { <<"1">>, <<"A"," ","+"," ","1">>, <<"B">>, <<"H","*","T">>, <<"s","i","n","(","a",")"," ","+"," ","T">> }

\* Statements whose target is a reserved word or is not an identifier
SpecialStmts == { [lhs |-> <<"s","i","n">>, rhs |-> <<"3">>],
                  [lhs |-> <<"A"," ","x">>, rhs |-> <<"1">>] }

Stmts == [lhs : IdTargets, rhs : Rhss] \cup SpecialStmts

StmtText(st) == st.lhs \o <<" ","="," ">> \o st.rhs

BatchText(batch) ==
    Join(<<";"," ">>, [i \in DOMAIN batch |-> StmtText(batch[i])])

\* The batches of at most max statements.
BatchTexts(max) ==
    { BatchText(b) : b \in UNION { [1..n -> Stmts] : n \in 1..max } }

RawAlphabet == {"A", "1", "=", ";", " ", "\n"}

\* The texts of at most max characters of RawAlphabet.
RawTexts(max) == UNION { [1..n -> RawAlphabet] : n \in 0..max }

\* The worked examples of the specification and of its claims
ExampleSOM == <<"S","O","M"," ","="," ","A"," ","/"," ","H"," ","+"," ","B",";"," ","H"," ","="," ","T"," ","+"," ","1","0">>

ExampleCycle == <<"A"," ","="," ","B",";"," ","B"," ","="," ","A">>

ExampleSelfRef == <<"B"," ","="," ","A",";"," ","A"," ","="," ","A"," ","+"," ","1">>

ExampleDuplicate == <<"A"," ","="," ","1",";"," ","A"," ","="," ","2">>

ExampleParse == <<"A"," ","="," ","B"," ","+"," ","1",";"," ","B"," ","="," ","2">>

ExampleNoEquals == <<"A"," ","B">>

ExampleReservedTarget == <<"s","i","n"," ","="," ","3">>

ExampleReservedCase == <<"A"," ","="," ","S","i","n","(","a",")"," ","+"," ","C","O","S","(","A",")">>

ExampleFirstError == <<"A"," ","="," ","1",";"," ","="," ","2",";"," ","B">>

\* A right-hand side whose identifier is followed by a non-ASCII letter.
ExampleAccent == <<"A"," ","="," ","x","U+00E9"," ","+"," ","1">>

ExampleTexts ==
    { ExampleSOM,
      ExampleCycle,
      ExampleSelfRef,
      ExampleDuplicate,
      ExampleParse,
      ExampleNoEquals,
      ExampleReservedTarget,
      ExampleReservedCase,
      ExampleFirstError,
      ExampleAccent }

Texts(stmts, len) == BatchTexts(stmts) \cup RawTexts(len) \cup ExampleTexts

----------------------------------------------------------------------------
(* The state machine: one call of build_response                           *)

\* The users that send updates, by Telegram user id.
Users == {1, 2}

\* A key that data["users"] does not hold.
NoEntry == [language |-> "none", username |-> "none"]

\* load_data() when data.json does not exist: {"users": {}, "admins": []}
EmptyData == [users |-> [u \in Users |-> NoEntry], admins |-> <<>>]

\* An empty chat_data: no language, no pending language choice, no mode.
EmptyChat == [lang |-> "none", awaiting_language |-> FALSE, mode |-> "none"]

\* The bot before any update.
SessionIdle ==
    /\ file = EmptyData
    /\ lock = 0
    /\ chat = [u \in Users |-> EmptyChat]
    /\ tpc = [u \in Users |-> "idle"]
    /\ handler = [u \in Users |-> "none"]
    /\ section = [u \in Users |-> "none"]
    /\ arg = [u \in Users |-> <<>>]
    /\ data = [u \in Users |-> EmptyData]
    /\ sent = [u \in Users |-> <<>>]
    /\ handled = [u \in Users |-> 0]

\* No conversion made (yet): the fields of lines 34-39, empty.
NoConversions == [decimal |-> <<>>, binary |-> <<>>, octal |-> <<>>, hexadecimal |-> <<>>]

Init ==
    /\ expr \in Texts(MaxStmts, MaxRawLen)
    /\ pc = "parse"
    /\ error = NoError
    /\ assignments = <<>>
    /\ input_vars = <<>>
    /\ dep_map = <<>>
    /\ remaining = <<>>
    /\ ordered_lhs = <<>>
    /\ ordered_set = {}
    /\ ordered_assignments = <<>>
    /\ variables = <<>>
    /\ algo_snippet = <<>>
    /\ pascal_snippet = <<>>
    /\ call = "expression"
    /\ raw = <<>>
    /\ value = 0
    /\ base = 0
    /\ conversions = NoConversions
    /\ npc = "idle"
    /\ nerror = NoError
    /\ SessionIdle

\* line 198, parse_assignments returns
ParseOk ==
    /\ pc = "parse"
    /\ LET r == parse_assignments(expr) IN
        /\ r.err = NoError
        /\ assignments' = r.assignments
    /\ pc' = "analyse"
    /\ UNCHANGED <<session_vars, numeral_vars, expr, error, input_vars, dep_map, remaining, ordered_lhs,
                   ordered_set, ordered_assignments, variables, algo_snippet,
                   pascal_snippet>>

\* line 198, parse_assignments raises: build_response propagates
ParseFail ==
    /\ pc = "parse"
    /\ LET r == parse_assignments(expr) IN
        /\ r.err # NoError
        /\ error' = r.err
    /\ pc' = "failed"
    /\ UNCHANGED <<session_vars, numeral_vars, expr, assignments, input_vars, dep_map, remaining,
                   ordered_lhs, ordered_set, ordered_assignments, variables,
                   algo_snippet, pascal_snippet>>

\* lines 199-215
Analyse ==
    /\ pc = "analyse"
    /\ input_vars' = input_vars_of(assignments)
    /\ dep_map' = dep_map_of(assignments)
    /\ remaining' = assigned_vars_of(assignments)
    /\ ordered_lhs' = <<>>
    /\ ordered_set' = {}
    /\ pc' = "resolve"
    /\ UNCHANGED <<session_vars, numeral_vars, expr, error, assignments, ordered_assignments, variables,
                   algo_snippet, pascal_snippet>>

\* lines 217-225: a pass of the while loop that schedules something; if
\* remaining.remove raises, the exception leaves build_response
PassProgress ==
    /\ pc = "resolve"
    /\ remaining # <<>>
    /\ LET st == ScanPass(remaining, ordered_lhs, ordered_set, dep_map) IN
        /\ st.progress \/ st.raised
        /\ remaining' = st.remaining
        /\ ordered_lhs' = st.ordered_lhs
        /\ ordered_set' = st.ordered_set
        /\ pc' = IF st.raised THEN "failed" ELSE pc
        /\ error' = IF st.raised THEN RemoveError ELSE error
    /\ UNCHANGED <<session_vars, numeral_vars, expr, assignments, input_vars, dep_map,
                   ordered_assignments, variables, algo_snippet,
                   pascal_snippet>>

Reverse(s) == [i \in DOMAIN s |-> s[Len(s) + 1 - i]]

\* A variant of PassFallback that appends the remaining targets in reverse
PassFallbackReversed ==
    /\ pc = "resolve"
    /\ remaining # <<>>
    /\ LET st == ScanPass(remaining, ordered_lhs, ordered_set, dep_map) IN
        /\ ~ st.progress /\ ~ st.raised
        /\ ordered_lhs' = st.ordered_lhs \o Reverse(st.remaining)
    /\ pc' = "render"
    /\ UNCHANGED <<session_vars, numeral_vars, expr, error, assignments, input_vars, dep_map, remaining,
                   ordered_set, ordered_assignments, variables, algo_snippet,
                   pascal_snippet>>

\* A variant of PassFallback without the break: the loop goes on
PassFallbackNoBreak ==
    /\ pc = "resolve"
    /\ remaining # <<>>
    /\ LET st == ScanPass(remaining, ordered_lhs, ordered_set, dep_map) IN
        /\ ~ st.progress /\ ~ st.raised
        /\ ordered_lhs' = st.ordered_lhs \o st.remaining
    /\ UNCHANGED <<session_vars, numeral_vars, expr, pc, error, assignments, input_vars, dep_map,
                   remaining, ordered_set, ordered_assignments, variables,
                   algo_snippet, pascal_snippet>>

\* lines 217-228: a pass that schedules nothing: extend and break
PassFallback ==
    /\ pc = "resolve"
    /\ remaining # <<>>
    /\ LET st == ScanPass(remaining, ordered_lhs, ordered_set, dep_map) IN
        /\ ~ st.progress /\ ~ st.raised
        /\ ordered_lhs' = st.ordered_lhs \o st.remaining
    /\ pc' = "render"
    /\ UNCHANGED <<session_vars, numeral_vars, expr, error, assignments, input_vars, dep_map, remaining,
                   ordered_set, ordered_assignments, variables, algo_snippet,
                   pascal_snippet>>

\* line 217: the loop condition is false
LoopExit ==
    /\ pc = "resolve"
    /\ remaining = <<>>
    /\ pc' = "render"
    /\ UNCHANGED <<session_vars, numeral_vars, expr, error, assignments, input_vars, dep_map, remaining,
                   ordered_lhs, ordered_set, ordered_assignments, variables,
                   algo_snippet, pascal_snippet>>

variables_of(olhs, inputs) ==
    LET NotOrdered(name) == ~ InSeq(name, olhs)
    IN  olhs \o SelectSeq(inputs, NotOrdered)

ordered_assignments_of(assigns, olhs) ==
    LET lhs_to_rhs == lhs_to_rhs_of(assigns)
    IN  [i \in DOMAIN olhs |-> [lhs |-> olhs[i], rhs |-> lhs_to_rhs[olhs[i]]]]

\* lhs_to_rhs[lhs] of line 231 raises for a name that is no key
LookupFails(assigns, olhs) ==
    \E i \in DOMAIN olhs : olhs[i] \notin DOMAIN lhs_to_rhs_of(assigns)

\* lines 230-239
Render ==
    /\ pc = "render"
    /\ IF LookupFails(assignments, ordered_lhs)
       THEN /\ pc' = "failed"
            /\ error' = KeyError
            /\ UNCHANGED <<ordered_assignments, variables, algo_snippet,
                           pascal_snippet>>
       ELSE /\ ordered_assignments' =
                    ordered_assignments_of(assignments, ordered_lhs)
            /\ variables' = variables_of(ordered_lhs, input_vars)
            /\ algo_snippet' = generate_algo(DefaultName, ordered_assignments',
                                             input_vars, variables')
            /\ pascal_snippet' = generate_pascal(DefaultName,
                                                 ordered_assignments',
                                                 input_vars, variables')
            /\ pc' = "done"
            /\ error' = error
    /\ UNCHANGED <<session_vars, numeral_vars, expr, assignments, input_vars, dep_map, remaining,
                   ordered_lhs, ordered_set>>

Next ==
    \/ ParseOk
    \/ ParseFail
    \/ Analyse
    \/ PassProgress
    \/ PassFallback
    \/ LoopExit
    \/ Render

Spec == Init /\ [][Next]_vars

----------------------------------------------------------------------------
(* detect_number_system and convert_number_to_bases                        *)

\* The digits of int() and format(): "0".."9" then the letters.
DigitChars == <<"0","1","2","3","4","5","6","7","8","9">> \o UpperLetters

\* str.upper() on one character
UpperChar(c) ==
    IF c \in Range(LowerLetters)
    THEN UpperLetters[CHOOSE i \in DOMAIN LowerLetters : LowerLetters[i] = c]
    ELSE c

\* str.upper()
Upper(s) == [i \in DOMAIN s |-> UpperChar(s[i])]

\* str.startswith
StartsWith(s, p) == Len(s) >= Len(p) /\ SubSeq(s, 1, Len(p)) = p

\* The value of a digit character, letters in either case.
DigitValue(c) == (CHOOSE i \in DOMAIN DigitChars : DigitChars[i] = UpperChar(c)) - 1

\* c is a digit of the base
IsDigitIn(c, b) == UpperChar(c) \in Range(DigitChars) /\ DigitValue(c) < b

AllDigitsIn(s, b) == \A i \in DOMAIN s : IsDigitIn(s[i], b)

\* The number a digit string denotes in the base.
RECURSIVE DigitsValue(_, _)
DigitsValue(ds, b) ==
    IF ds = <<>> THEN 0
    ELSE DigitsValue(SubSeq(ds, 1, Len(ds) - 1), b) * b + DigitValue(ds[Len(ds)])

\* The literal prefix int(s, base) accepts for the base.
IntPrefix(b) ==
    IF b = 2 THEN <<"0","b">>
    ELSE IF b = 8 THEN <<"0","o">>
    ELSE IF b = 16 THEN <<"0","x">>
    ELSE <<>>

\* int(s, base) of Python: surrounding whitespace is ignored, one sign is
\* accepted, then for base 2, 8 and 16 the base's own prefix in either
\* case, then at least one digit of the base.  ok is FALSE where int raises
\* ValueError.
PyInt(s, b) ==
    LET t      == Strip(s)
        signed == t # <<>> /\ t[1] \in {"+", "-"}
        u      == IF signed THEN Tail(t) ELSE t
        v      == IF IntPrefix(b) # <<>> /\ StartsWith(Lower(u), IntPrefix(b))
                  THEN SubSeq(u, 3, Len(u)) ELSE u
        ok     == v # <<>> /\ AllDigitsIn(v, b)
    IN  [ok    |-> ok,
         value |-> IF ~ ok THEN 0
                   ELSE IF signed /\ t[1] = "-" THEN 0 - DigitsValue(v, b)
                   ELSE DigitsValue(v, b)]

\* ValueError("empty") of lines 45, 54 and 83
EmptyNumeral == "ValueError: empty"

\* the ValueError raised from the int() failure, line 88
MalformedNumeral == "ValueError"

\* lines 47-50: the sign
DetectSign(text) == IF text[1] \in {"+", "-"} THEN <<text[1]>> ELSE <<>>

DropSign(text) == IF text[1] \in {"+", "-"} THEN Tail(text) ELSE text

\* line 52: text.replace("_", "")
RemoveUnderscores(text) == SelectSeq(text, LAMBDA c : c # "_")

\* Variant of PrefixBase that only knows the lower-case prefixes.
PrefixBaseLowerOnly(body) ==
    IF StartsWith(body, <<"0","b">>) THEN 2
    ELSE IF StartsWith(body, <<"0","o">>) THEN 8
    ELSE IF StartsWith(body, <<"0","x">>) THEN 16
    ELSE 0

\* lines 60-68: the base a prefix forces, 0 without a prefix
PrefixBase(body) ==
    LET lower_body == Lower(body)
    IN  IF StartsWith(lower_body, <<"0","b">>) THEN 2
        ELSE IF StartsWith(lower_body, <<"0","o">>) THEN 8
        ELSE IF StartsWith(lower_body, <<"0","x">>) THEN 16
        ELSE 0

\* Variant of HeuristicBase that tests the octal shape before the binary one.
HeuristicBaseOctalFirst(body) ==
    LET upper == Upper(body)
    IN  IF \E i \in DOMAIN upper : upper[i] \in {"A","B","C","D","E","F"} THEN 16
        ELSE IF \E i \in DOMAIN upper : upper[i] \in {"8","9"} THEN 10
        ELSE IF /\ Range(upper) \subseteq {"0","1","2","3","4","5","6","7"}
                /\ StartsWith(body, <<"0">>)
                /\ Len(body) > 1 THEN 8
        ELSE IF Range(upper) \subseteq {"0","1"} /\ Len(body) > 1 THEN 2
        ELSE 10

\* lines 69-80: the base chosen from the characters of the body
HeuristicBase(body) ==
    LET upper == Upper(body)
    IN  IF \E i \in DOMAIN upper : upper[i] \in {"A","B","C","D","E","F"} THEN 16
        ELSE IF \E i \in DOMAIN upper : upper[i] \in {"8","9"} THEN 10
        ELSE IF Range(upper) \subseteq {"0","1"} /\ Len(body) > 1 THEN 2
        ELSE IF /\ Range(upper) \subseteq {"0","1","2","3","4","5","6","7"}
                /\ StartsWith(body, <<"0">>)
                /\ Len(body) > 1 THEN 8
        ELSE 10

\* detect_number_system(raw): the error raised, or the pair returned
detect_number_system(r) ==
    LET stripped == Strip(r)
        failure(e) == [error |-> e, value |-> 0, base |-> 0]
    IN  IF stripped = <<>> THEN failure(EmptyNumeral)
        ELSE LET sign == DetectSign(stripped)
                 text == RemoveUnderscores(DropSign(stripped))
             IN  IF text = <<>> THEN failure(EmptyNumeral)
                 ELSE LET forced == PrefixBase(text)
                          b      == IF forced # 0 THEN forced ELSE HeuristicBase(text)
                          body   == IF forced # 0 THEN SubSeq(text, 3, Len(text)) ELSE text
                      IN  IF body = <<>> THEN failure(EmptyNumeral)
                          ELSE LET parsed == PyInt(sign \o body, b)
                               IN  IF parsed.ok
                                   THEN [error |-> NoError, value |-> parsed.value, base |-> b]
                                   ELSE failure(MalformedNumeral)

\* format(n, "b"), format(n, "o"), format(n, "X") and str(n) for n >= 0
RECURSIVE FormatInt(_, _)
FormatInt(n, b) ==
    IF n < b THEN <<DigitChars[n + 1]>>
    ELSE FormatInt(n \div b, b) \o <<DigitChars[(n % b) + 1]>>

\* str(value)
Str(v) == IF v < 0 THEN <<"-">> \o FormatInt(0 - v, 10) ELSE FormatInt(v, 10)

\* Variant of fmt that forgets the sign.
fmtNoSign(abs_value, sign, b) ==
    IF abs_value = 0 THEN <<"0">> ELSE FormatInt(abs_value, b)

\* Variant of fmt that formats as bin(), oct() and hex() do, with the prefix.
fmtWithPrefix(abs_value, sign, b) ==
    sign \o IntPrefix(b) \o (IF abs_value = 0 THEN <<"0">> ELSE FormatInt(abs_value, b))

\* lines 30-32: fmt, whose abs_value and sign come from the enclosing call
fmt(abs_value, sign, b) ==
    sign \o (IF abs_value = 0 THEN <<"0">> ELSE FormatInt(abs_value, b))

\* convert_number_to_bases(value)
convert_number_to_bases(v) ==
    LET abs_value == IF v < 0 THEN 0 - v ELSE v
        sign      == IF v < 0 THEN <<"-">> ELSE <<>>
    IN  [decimal     |-> Str(v),
         binary      |-> fmt(abs_value, sign, 2),
         octal       |-> fmt(abs_value, sign, 8),
         hexadecimal |-> fmt(abs_value, sign, 16)]

----------------------------------------------------------------------------
(* Numeral requests                                                        *)

\* Longest text drawn from NumeralAlphabet.
MaxNumLen == 4

\* Largest magnitude handed directly to convert_number_to_bases.
MaxValue == 300

NumeralAlphabet == {"0", "1", "7", "9", "b", "B", "x", "-", "_", " "}

NumeralExamples ==
    { <<"0","b","1","0","1","0">>,
      <<"7","F">>,
      <<"0","7","5">>,
      <<"4","2">>,
      <<>>,
      <<"1","0">>,
      <<"0","x","0","x","1","F">>,
      <<"0","o","1","7">>,
      <<"0","O","1","7">>,
      <<"+","0","X","1","f">>,
      <<"-","0","b","1","_","0","1">>,
      <<" "," ","4","2"," "," ">>,
      <<"0","x">>,
      <<"1","x">> }

\* The texts of at most max characters of NumeralAlphabet, and the examples.
NumeralTexts(max) == UNION { [1..n -> NumeralAlphabet] : n \in 0..max } \cup NumeralExamples

\* A numeral request: the text of a message in detect mode, or the integer
\* of a message in number mode.
NumeralInit ==
    /\ expr = <<>>
    /\ pc = "idle"
    /\ error = NoError
    /\ assignments = <<>>
    /\ input_vars = <<>>
    /\ dep_map = <<>>
    /\ remaining = <<>>
    /\ ordered_lhs = <<>>
    /\ ordered_set = {}
    /\ ordered_assignments = <<>>
    /\ variables = <<>>
    /\ algo_snippet = <<>>
    /\ pascal_snippet = <<>>
    /\ base = 0
    /\ conversions = NoConversions
    /\ nerror = NoError
    /\ SessionIdle
    /\ \/ /\ call = "detect"
          /\ raw \in NumeralTexts(MaxNumLen)
          /\ value = 0
          /\ npc = "detect"
       \/ /\ call = "number"
          /\ raw = <<>>
          /\ value \in (0 - MaxValue)..MaxValue
          /\ npc = "convert"

\* line 708, detect_number_system returns
DetectOk ==
    /\ npc = "detect"
    /\ LET r == detect_number_system(raw) IN
          /\ r.error = NoError
          /\ value' = r.value
          /\ base' = r.base
    /\ npc' = "convert"
    /\ UNCHANGED <<session_vars, expression_vars, call, raw, conversions, nerror>>

\* line 708, detect_number_system raises
DetectFail ==
    /\ npc = "detect"
    /\ LET r == detect_number_system(raw) IN
          /\ r.error # NoError
          /\ nerror' = r.error
    /\ npc' = "failed"
    /\ UNCHANGED <<session_vars, expression_vars, call, raw, value, base, conversions>>

\* lines 700 and 713: conversions = convert_number_to_bases(value)
Convert ==
    /\ npc = "convert"
    /\ conversions' = convert_number_to_bases(value)
    /\ npc' = "done"
    /\ UNCHANGED <<session_vars, expression_vars, call, raw, value, base, nerror>>

NumeralNext ==
    \/ DetectOk
    \/ DetectFail
    \/ Convert

NumeralSpec == NumeralInit /\ [][NumeralNext]_vars

----------------------------------------------------------------------------
(* The bot: handlers, chat_data, data.json and DATA_LOCK                   *)

\* Largest number of updates taken from one user.
MaxUpdates == 2

\* The keys of MESSAGES.
Languages == {"ar", "fr", "en"}

\* The language named by the callback data of a `lang:` button; "xx"
\* stands for data that names no key of MESSAGES.
LangChoices == {"fr", "xx"}

\* The actions of the `menu:` buttons built by build_main_menu.
MenuActions == {"convert", "detect", "algo", "language"}

\* The texts of the messages users send.
SessionTexts ==
    { <<"4","2">>,
      <<"7","F">>,
      <<"A"," ","="," ","1">>,
      <<"=">> }

\* user.username or user.full_name
UserName(u) == IF u = 1 THEN "alice" ELSE "bob"

\* lines 448-449 of fetch_user_entry: the user's entry takes the current
\* username
WithUsername(d, u) ==
    [d EXCEPT !.users[u].username = UserName(u)]

\* Variant of WithLanguage that appends the user to admins every time.
WithLanguageAlwaysAdmin(d, u, lang) ==
    [users  |-> [d.users EXCEPT ![u] = [language |-> lang, username |-> UserName(u)]],
     admins |-> Append(d.admins, u)]

\* lines 458-462 of store_user_language: the user's entry is replaced, and
\* the user becomes the admin when there is none
WithLanguage(d, u, lang) ==
    [users  |-> [d.users EXCEPT ![u] = [language |-> lang, username |-> UserName(u)]],
     admins |-> IF d.admins = <<>> THEN <<u>> ELSE d.admins]

\* lines 472-477 of ensure_language, after the load: chat_data takes the
\* stored language when the user has an entry
WithStoredLanguage(c, d, u) ==
    IF d.users[u] # NoEntry THEN [c EXCEPT !.lang = d.users[u].language] ELSE c

\* handle_menu after ensure_language, lines 603-640
MenuOutcome(c, action) ==
    IF action = "convert"
    THEN [chat |-> [c EXCEPT !.mode = "number"], sent |-> <<"ask_number">>]
    ELSE IF action = "detect"
    THEN [chat |-> [c EXCEPT !.mode = "detect"], sent |-> <<"ask_detect">>]
    ELSE IF action = "algo"
    THEN [chat |-> [c EXCEPT !.mode = "expression"], sent |-> <<"ask_expression">>]
    ELSE IF action = "language"
    THEN [chat |-> [c EXCEPT !.awaiting_language = TRUE], sent |-> <<"choose_language">>]
    ELSE [chat |-> c, sent |-> <<>>]

\* handle_action after ensure_language, lines 654-661
ActionOutcome(c) == [chat |-> c, sent |-> <<"menu">>]

\* cancel_command after ensure_language, lines 753-762
CancelOutcome(c) ==
    [chat |-> [c EXCEPT !.mode = "none", !.awaiting_language = FALSE],
     sent |-> <<"cancelled", "menu">>]

\* handle_text after ensure_language, lines 675-743.  build_response
\* returns whenever parse_assignments does.
TextOutcome(c, message_text) ==
    LET text == Strip(message_text)
        mode == IF c.mode = "none" /\ InSeq("=", text) THEN "expression" ELSE c.mode
        kept == [c EXCEPT !.mode = mode]
        cleared == [c EXCEPT !.mode = "none"]
    IN  IF c.awaiting_language THEN [chat |-> c, sent |-> <<"choose_language">>]
        ELSE IF mode = "number"
        THEN IF PyInt(text, 10).ok
             THEN [chat |-> cleared, sent |-> <<"number_result", "menu">>]
             ELSE [chat |-> kept, sent |-> <<"invalid_number">>]
        ELSE IF mode = "detect"
        THEN IF detect_number_system(text).error = NoError
             THEN [chat |-> cleared, sent |-> <<"detect_result", "menu">>]
             ELSE [chat |-> kept, sent |-> <<"invalid_detect">>]
        ELSE IF mode = "expression"
        THEN IF parse_assignments(text).err = NoError
             THEN [chat |-> cleared, sent |-> <<"expression_result", "menu">>]
             ELSE [chat |-> kept, sent |-> <<"invalid_expression">>]
        ELSE [chat |-> c, sent |-> <<"menu">>]

\* admin_command after the load, lines 777-800
AdminReply(d, u) ==
    IF ~ InSeq(u, d.admins) THEN "admin_denied"
    ELSE IF \A v \in Users : d.users[v] = NoEntry THEN "admin_no_users"
    ELSE "admin_users"

\* The bot before any update; no call of the pipelines is in progress.
SessionInit ==
    /\ expr = <<>>
    /\ pc = "idle"
    /\ error = NoError
    /\ assignments = <<>>
    /\ input_vars = <<>>
    /\ dep_map = <<>>
    /\ remaining = <<>>
    /\ ordered_lhs = <<>>
    /\ ordered_set = {}
    /\ ordered_assignments = <<>>
    /\ variables = <<>>
    /\ algo_snippet = <<>>
    /\ pascal_snippet = <<>>
    /\ call = "none"
    /\ raw = <<>>
    /\ value = 0
    /\ base = 0
    /\ conversions = NoConversions
    /\ npc = "idle"
    /\ nerror = NoError
    /\ SessionIdle

\* An update of user u is dispatched to handler h with input a.
Take(u, h, a) ==
    /\ tpc[u] = "idle"
    /\ handled[u] < MaxUpdates
    /\ handled' = [handled EXCEPT ![u] = @ + 1]
    /\ handler' = [handler EXCEPT ![u] = h]
    /\ arg' = [arg EXCEPT ![u] = a]
    /\ UNCHANGED <<expression_vars, numeral_vars, file, lock, data>>

\* The handler returns with chat_data and replies as in o.
Return(u, o) ==
    /\ chat' = [chat EXCEPT ![u] = o.chat]
    /\ sent' = [sent EXCEPT ![u] = o.sent]
    /\ tpc' = [tpc EXCEPT ![u] = "idle"]
    /\ section' = [section EXCEPT ![u] = "none"]

\* The handler reaches `async with DATA_LOCK` of the section sec.
Enter(u, c, sec) ==
    /\ chat' = [chat EXCEPT ![u] = c]
    /\ sent' = [sent EXCEPT ![u] = <<>>]
    /\ tpc' = [tpc EXCEPT ![u] = "acquire"]
    /\ section' = [section EXCEPT ![u] = sec]

\* start, lines 538-546: up to the lock of fetch_user_entry
Start(u) ==
    /\ Take(u, "start", <<>>)
    /\ Enter(u, chat[u], "fetch")

\* handle_language, lines 564-579: up to the lock of store_user_language
HandleLanguage(u) ==
    \E choice \in LangChoices :
        /\ Take(u, "language", <<choice>>)
        /\ Enter(u, [lang |-> IF choice \in Languages THEN choice ELSE "ar",
                     awaiting_language |-> FALSE,
                     mode |-> "none"], "store")

\* handle_menu, lines 590-640
HandleMenu(u) ==
    \E action \in MenuActions :
        /\ Take(u, "menu", <<action>>)
        /\ IF chat[u].lang # "none"
           THEN Return(u, MenuOutcome(chat[u], action))
           ELSE Enter(u, chat[u], "ensure")

\* handle_action for action:back, lines 642-661
HandleAction(u) ==
    /\ Take(u, "action", <<"back">>)
    /\ LET c == [chat[u] EXCEPT !.awaiting_language = FALSE]
       IN  IF c.lang # "none"
           THEN Return(u, ActionOutcome(c))
           ELSE Enter(u, c, "ensure")

\* handle_text, lines 664-743
HandleText(u) ==
    \E message_text \in SessionTexts :
        /\ Take(u, "text", message_text)
        /\ IF chat[u].lang # "none"
           THEN Return(u, TextOutcome(chat[u], message_text))
           ELSE Enter(u, chat[u], "ensure")

\* cancel_command, lines 744-762
CancelCommand(u) ==
    /\ Take(u, "cancel", <<>>)
    /\ IF chat[u].lang # "none"
       THEN Return(u, CancelOutcome(chat[u]))
       ELSE Enter(u, chat[u], "ensure")

\* admin_command, lines 767-775: up to a lock
AdminCommand(u) ==
    /\ Take(u, "admin", <<>>)
    /\ IF chat[u].lang # "none"
       THEN Enter(u, chat[u], "admins")
       ELSE Enter(u, chat[u], "ensure")

\* Variant of Acquire that enters the section whoever holds the lock.
AcquireUnguarded(u) ==
    /\ tpc[u] = "acquire"
    /\ lock' = u
    /\ tpc' = [tpc EXCEPT ![u] = "load"]
    /\ UNCHANGED <<expression_vars, numeral_vars, file, chat, handler, section,
                   arg, data, sent, handled>>

\* `async with DATA_LOCK`: the task goes on when the lock is free
Acquire(u) ==
    /\ tpc[u] = "acquire"
    /\ lock = 0
    /\ lock' = u
    /\ tpc' = [tpc EXCEPT ![u] = "load"]
    /\ UNCHANGED <<expression_vars, numeral_vars, file, chat, handler, section,
                   arg, data, sent, handled>>

\* data = load_data()
Load(u) ==
    /\ tpc[u] = "load"
    /\ data' = [data EXCEPT ![u] = file]
    /\ tpc' = [tpc EXCEPT ![u] =
                  IF section[u] = "store" \/ (section[u] = "fetch" /\ file.users[u] # NoEntry)
                  THEN "write" ELSE "release"]
    /\ UNCHANGED <<expression_vars, numeral_vars, file, lock, chat, handler,
                   section, arg, sent, handled>>

\* the change of `data` and save_data(data)
Write(u) ==
    /\ tpc[u] = "write"
    /\ LET changed == IF section[u] = "fetch" THEN WithUsername(data[u], u)
                      ELSE WithLanguage(data[u], u, chat[u].lang)
       IN  /\ data' = [data EXCEPT ![u] = changed]
           /\ file' = changed
    /\ tpc' = [tpc EXCEPT ![u] = "release"]
    /\ UNCHANGED <<expression_vars, numeral_vars, lock, chat, handler, section,
                   arg, sent, handled>>

\* The end of the `async with` block, and the handler up to its next lock
\* or to its return.
Release(u) ==
    /\ tpc[u] = "release"
    /\ lock' = 0
    /\ LET d == data[u]
           c == WithStoredLanguage(chat[u], d, u)
       IN  IF section[u] = "fetch"
           THEN IF d.users[u] # NoEntry
                THEN Enter(u, c, "store")
                ELSE Return(u, [chat |-> [chat[u] EXCEPT !.awaiting_language = TRUE],
                                sent |-> <<"welcome_new">>])
           ELSE IF section[u] = "store"
           THEN Return(u, [chat |-> chat[u], sent |-> <<"menu">>])
           ELSE IF section[u] = "admins"
           THEN Return(u, [chat |-> chat[u], sent |-> <<AdminReply(d, u)>>])
           ELSE IF handler[u] = "menu" THEN Return(u, MenuOutcome(c, arg[u][1]))
           ELSE IF handler[u] = "action" THEN Return(u, ActionOutcome(c))
           ELSE IF handler[u] = "text" THEN Return(u, TextOutcome(c, arg[u]))
           ELSE IF handler[u] = "cancel" THEN Return(u, CancelOutcome(c))
           ELSE Enter(u, c, "admins")
    /\ UNCHANGED <<expression_vars, numeral_vars, file, handler, arg, data, handled>>

SessionNext ==
    \/ \E u \in Users : Start(u)
    \/ \E u \in Users : HandleLanguage(u)
    \/ \E u \in Users : HandleMenu(u)
    \/ \E u \in Users : HandleAction(u)
    \/ \E u \in Users : HandleText(u)
    \/ \E u \in Users : CancelCommand(u)
    \/ \E u \in Users : AdminCommand(u)
    \/ \E u \in Users : Acquire(u)
    \/ \E u \in Users : Load(u)
    \/ \E u \in Users : Write(u)
    \/ \E u \in Users : Release(u)

SessionSpec == SessionInit /\ [][SessionNext]_vars

----------------------------------------------------------------------------
(* Vocabulary of the properties                                            *)

Returned == pc = "done"

\* parse_assignments has just returned its list
Parsed == pc = "analyse"

Targets == assigned_vars_of(assignments)

TargetSet == Range(Targets)

NoDuplicates(s) == \A i, j \in DOMAIN s : s[i] = s[j] => i = j

\* A name of the form [A-Za-z_][A-Za-z0-9_]*
IsIdentifierName(s) ==
    /\ s # <<>>
    /\ s[1] \in AsciiLetters \cup {"_"}
    /\ \A i \in DOMAIN s : s[i] \in AsciiLetters \cup Digits \cup {"_"}

IsReservedName(s) == Lower(s) \in RESERVED_WORDS

DistinctIdentifierTargets ==
    /\ NoDuplicates(Targets)
    /\ \A i \in DOMAIN Targets : IsIdentifierName(Targets[i])

\* The identifiers named in a text
NamedIn(text) == Range(FindAll(text))

\* The assigned targets named in the right-hand side of statement i
Refs(i) == NamedIn(assignments[i].rhs) \cap TargetSet

\* The same, without the statement's own target
OtherRefs(i) == Refs(i) \ {assignments[i].lhs}

RefsOfName(t) == UNION { Refs(i) : i \in {k \in DOMAIN assignments : assignments[k].lhs = t} }

OtherRefsOfName(t) ==
    UNION { OtherRefs(i) : i \in {k \in DOMAIN assignments : assignments[k].lhs = t} }

\* The targets reachable from the set S in at most n further steps
RECURSIVE ReachIn(_, _, _)
ReachIn(R(_), S, n) ==
    IF n = 0 THEN S ELSE ReachIn(R, S \cup UNION { R(t) : t \in S }, n - 1)

\* No target is reachable from itself, self-reference included
Acyclic ==
    \A t \in TargetSet : t \notin ReachIn(RefsOfName, RefsOfName(t), Len(assignments))

\* No target is reachable from itself through other targets
AcyclicIgnoringSelf ==
    \A t \in TargetSet :
        t \notin ReachIn(OtherRefsOfName, OtherRefsOfName(t), Len(assignments))

\* Every emitted statement comes after the statements of the other targets
\* its right-hand side names
DependenciesFirst ==
    \A i \in DOMAIN ordered_assignments :
        \A t \in (NamedIn(ordered_assignments[i].rhs) \cap TargetSet)
                    \ {ordered_assignments[i].lhs} :
            \E j \in 1..(i-1) : ordered_assignments[j].lhs = t

\* The targets not yet scheduled, in their original input order
UnscheduledInInputOrder ==
    LET NotScheduled(name) == ~ InSeq(name, ordered_lhs)
    IN  SelectSeq(Targets, NotScheduled)

----------------------------------------------------------------------------
(* Properties                                                              *)

\* C1: when the targets are distinct identifiers and the dependency relation
\* among them is acyclic, the statements are emitted so that each target
\* comes after every other assigned target its right-hand side names, every
\* statement is emitted, and the example of the specification resolves to
\* [H, SOM].
C1_DependencyOrder ==
    (Returned /\ DistinctIdentifierTargets /\ Acyclic) =>
        /\ DependenciesFirst
        /\ Len(ordered_lhs) = Len(Targets)
        /\ Range(ordered_lhs) = TargetSet
        /\ (expr = ExampleSOM => ordered_lhs = << <<"H">>, <<"S","O","M">> >>)

\* A three-statement chain written backwards has been resolved into the
\* reverse of its input order.
C1_Witness ==
    /\ Returned /\ DistinctIdentifierTargets /\ Acyclic
    /\ Len(assignments) = 3
    /\ ordered_lhs = Reverse(Targets)
    /\ \A i \in 1..2 : OtherRefs(i) # {}

\* C3: a pass of the resolver that schedules nothing while targets remain
\* appends all the remaining targets, in their original input order, after
\* the ones already scheduled and ends the resolution; A = B; B = A is
\* resolved to [A, B].
C3_CycleFallback ==
    [][ /\ (pc = "resolve" /\ remaining # <<>> /\ remaining' = remaining) =>
            /\ ordered_lhs' = ordered_lhs \o UnscheduledInInputOrder
            /\ pc' = "render"
        /\ (pc = "render" /\ remaining # <<>>) => ordered_lhs' = ordered_lhs
        /\ (pc' = "done" /\ expr = ExampleCycle) =>
            ordered_lhs' = << <<"A">>, <<"B">> >>
      ]_vars

\* The fallback has acted after one target was scheduled and two were left.
C3_Witness ==
    /\ Returned
    /\ Len(remaining) >= 2
    /\ ordered_set # {}
    /\ NoDuplicates(Targets)
    /\ ordered_lhs = SubSeq(ordered_lhs, 1, Len(ordered_lhs) - Len(remaining))
                        \o remaining

\* C4: the resolution loop terminates for every batch: every pass either
\* removes at least one target from the remaining list or ends the loop, so
\* the length of the remaining list bounds the number of passes still to
\* come; once the loop has ended the resolution is never resumed.
C4_LoopTerminates ==
    [][ /\ pc = "resolve" =>
            \/ (pc' = "resolve" /\ Len(remaining') < Len(remaining))
            \/ pc' = "render"
        /\ pc \in {"render", "done"} => pc' \in {"render", "done"}
      ]_vars

\* The loop has ended through the fallback on a batch with a duplicate
\* target and a self-reference.
C4_Witness ==
    /\ Returned
    /\ remaining # <<>>
    /\ ~ NoDuplicates(Targets)
    /\ \E i \in DOMAIN assignments : assignments[i].lhs \in Refs(i)

\* Index of the first newline of text at or after i; Len(text) + 1 when
\* there is none.
RECURSIVE LineEnd(_, _)
LineEnd(text, i) ==
    IF i > Len(text) \/ text[i] = "\n" THEN i ELSE LineEnd(text, i + 1)

\* text.split("\n"): the lines of a snippet
RECURSIVE LinesFrom(_, _)
LinesFrom(text, i) ==
    LET e == LineEnd(text, i)
    IN  IF e > Len(text) THEN <<SubSeq(text, i, e - 1)>>
        ELSE <<SubSeq(text, i, e - 1)>> \o LinesFrom(text, e + 1)

Lines(text) == LinesFrom(text, 1)

HasDuplicateTargets == ~ NoDuplicates(Targets)

\* C2: when assignments share a target, one assignment statement is emitted
\* per occurrence and each carries the right-hand side of its own
\* occurrence, in both snippets.
C2_DuplicateTargetsKept ==
    (Returned /\ HasDuplicateTargets) =>
        /\ Len(ordered_assignments) = Len(assignments)
        /\ \A i \in DOMAIN assignments :
            /\ InSeq(AlgoAssignLine(assignments[i].lhs, assignments[i].rhs),
                     Lines(algo_snippet))
            /\ InSeq(PascalAssignLine(assignments[i].lhs, assignments[i].rhs),
                     Lines(pascal_snippet))

\* C5: a statement's own target is no dependency of it: when the targets are
\* distinct identifiers and the dependency relation is acyclic once
\* self-references are left out, every statement is emitted after the other
\* targets it names; B = A; A = A + 1 is resolved to [A, B].
C5_SelfReferenceExcluded ==
    (Returned /\ DistinctIdentifierTargets /\ AcyclicIgnoringSelf) =>
        /\ DependenciesFirst
        /\ (expr = ExampleSelfRef => ordered_lhs = << <<"A">>, <<"B">> >>)

\* The non-reserved identifiers of the right-hand sides, scanned in original
\* statement order, that are the target of no assignment
RhsInputs ==
    LET NotTarget(name) == name \notin TargetSet
    IN  SelectSeq(ordered_identifiers(rhs_texts_of(assignments)), NotTarget)

\* C6: the input variables are exactly the non-reserved identifiers that
\* occur in some right-hand side and are the target of no assignment, each
\* once, in order of first occurrence over the right-hand sides in original
\* statement order; for the SOM example they are A, B, T.
C6_InputVariables ==
    Returned =>
        /\ input_vars = RhsInputs
        /\ (expr = ExampleSOM => input_vars = << <<"A">>, <<"B">>, <<"T">> >>)

\* C7: the declaration list is the assigned variables in resolved order
\* followed by the input variables in first-seen order, and no name occurs
\* in it more than once.
C7_DeclarationList ==
    Returned =>
        /\ variables = ordered_lhs \o input_vars
        /\ NoDuplicates(variables)

\* C8: a reserved function name written in any letter case in a right-hand
\* side is no input variable and is not in the declaration list; any other
\* identifier of a right-hand side is declared exactly as it is spelled.
C8_ReservedNeverVariable ==
    Returned =>
        \A i \in DOMAIN assignments :
            \A name \in NamedIn(assignments[i].rhs) :
                IF IsReservedName(name)
                THEN ~ InSeq(name, input_vars) /\ ~ InSeq(name, variables)
                ELSE InSeq(name, variables)

\* C9: no reserved word, in any letter case, is emitted as an assigned
\* variable of the declaration list or as the target of an assignment
\* statement.
C9_ReservedNeverAssigned ==
    Returned =>
        /\ \A i \in DOMAIN variables : ~ IsReservedName(variables[i])
        /\ \A i \in DOMAIN ordered_assignments :
            ~ IsReservedName(ordered_assignments[i].lhs)

\* The maximal runs of non-separator characters of a text that hold a
\* non-blank character, as pairs of first and last position
NonBlankSegments(text) ==
    LET starts == { i \in DOMAIN text :
                      /\ text[i] \notin Separators
                      /\ (i = 1 \/ text[i-1] \in Separators) }
        IsEnd(j) == j = Len(text) \/ text[j+1] \in Separators
        EndOf(i) == CHOOSE j \in i..Len(text) :
                        IsEnd(j) /\ \A m \in i..(j-1) : ~ IsEnd(m)
    IN  { b \in { <<i, EndOf(i)>> : i \in starts } :
            \E k \in b[1]..b[2] : text[k] \notin Whitespace }

\* The k-th of them from the left
NthSegment(text, k) ==
    LET segs == NonBlankSegments(text)
        b == CHOOSE c \in segs : Cardinality({d \in segs : d[1] < c[1]}) = k - 1
    IN  SubSeq(text, b[1], b[2])

\* A text without its leading and trailing whitespace
Trimmed(text) ==
    LET inked == {k \in DOMAIN text : text[k] \notin Whitespace}
    IN  IF inked = {} THEN <<>>
        ELSE SubSeq(text, CHOOSE k \in inked : \A m \in inked : k <= m,
                          CHOOSE k \in inked : \A m \in inked : k >= m)

\* The pair a segment stands for: cut at its first "=", both sides trimmed
SegmentPair(seg) ==
    LET eqs == {k \in DOMAIN seg : seg[k] = "="}
        cut == CHOOSE k \in eqs : \A m \in eqs : k <= m
    IN  [lhs |-> Trimmed(SubSeq(seg, 1, cut - 1)),
         rhs |-> Trimmed(SubSeq(seg, cut + 1, Len(seg)))]

\* C10: an accepted text yields one (target, right-hand side) pair per
\* non-blank segment between runs of ";" and newline, in input order, each
\* segment cut at its first "=" with both sides trimmed;
\* A = B + 1; B = 2 yields [(A, B + 1), (B, 2)].
C10_ParseAssignments ==
    Parsed =>
        /\ Len(assignments) = Cardinality(NonBlankSegments(expr))
        /\ \A k \in DOMAIN assignments :
            assignments[k] = SegmentPair(NthSegment(expr, k))
        /\ (expr = ExampleParse =>
                assignments = << [lhs |-> <<"A">>, rhs |-> <<"B"," ","+"," ","1">>],
                                 [lhs |-> <<"B">>, rhs |-> <<"2">>] >>)

\* A text with a run of two separators has been parsed into a pair whose
\* right-hand side keeps a later "=".
C10_Witness ==
    /\ Parsed
    /\ \E k \in DOMAIN assignments : InSeq("=", assignments[k].rhs)
    /\ \E k \in 1..(Len(expr) - 1) :
        expr[k] \in Separators /\ expr[k+1] \in Separators

\* build_response has raised
Rejected == pc = "failed"

\* What is wrong with a non-blank segment, if anything
SegmentFault(seg) ==
    IF \A k \in DOMAIN seg : seg[k] # "=" THEN MissingEquals
    ELSE IF SegmentPair(seg).lhs = <<>> THEN EmptyTarget
    ELSE NoError

\* The failure the text calls for: that of its first faulty segment
ExpectedError(text) ==
    LET n == Cardinality(NonBlankSegments(text))
        faulty == {k \in 1..n : SegmentFault(NthSegment(text, k)) # NoError}
    IN  IF n = 0 THEN NoAssignments
        ELSE IF faulty = {} THEN NoError
        ELSE SegmentFault(NthSegment(text,
                 CHOOSE k \in faulty : \A m \in faulty : k <= m))

\* C11: parse_assignments fails with MissingEquals for a non-blank segment
\* without "=", with EmptyTarget for a segment whose left side is blank and
\* with NoAssignments when no non-blank segment exists; the failure reported
\* is that of the first faulty segment, nothing is returned beside it, and a
\* text is accepted only if no segment is faulty.
C11_ParseFailures ==
    /\ Rejected => (error = ExpectedError(expr) /\ assignments = <<>>)
    /\ Parsed => ExpectedError(expr) = NoError

\* A text whose first segment is valid, whose second has a blank left side
\* and whose third has no "=" has been rejected with EmptyTarget.
C11_Witness ==
    /\ Rejected
    /\ error = EmptyTarget
    /\ Cardinality(NonBlankSegments(expr)) = 3
    /\ SegmentFault(NthSegment(expr, 1)) = NoError
    /\ SegmentFault(NthSegment(expr, 2)) = EmptyTarget
    /\ SegmentFault(NthSegment(expr, 3)) = MissingEquals

ParseFailureKinds == {MissingEquals, EmptyTarget, NoAssignments}

\* C12: build_response fails only with the failure of parse_assignments:
\* whenever it has raised, the text has a faulty segment or no segment and
\* the failure is that parse failure; for an accepted text no later step
\* raises, and at the return both snippets are there.
C12_OnlyParseFailures ==
    /\ Rejected => (error \in ParseFailureKinds /\ error = ExpectedError(expr))
    /\ Returned => (/\ ExpectedError(expr) = NoError
                    /\ algo_snippet # <<>>
                    /\ pascal_snippet # <<>>)

\* Both snippets have been returned for a batch with a duplicate target, a
\* target that is no identifier and a dependency the loop could not resolve.
C12_Witness ==
    /\ Returned
    /\ HasDuplicateTargets
    /\ \E i \in DOMAIN Targets : ~ IsIdentifierName(Targets[i])
    /\ remaining # <<>>
    /\ algo_snippet # <<>> /\ pascal_snippet # <<>>

\* ---------------------------------------------------------------------
\* Snippet bodies.

\* The lines generate_algo emits before the input block (lines 149-151).
AlgoHeaderLen == 3

\* The lines generate_pascal emits before the input block (lines 179-184).
PascalHeaderLen == 6

InputBlockLen == IF input_vars = <<>> THEN 1 ELSE Len(input_vars)

\* C18: in both dialects the body of a returned snippet is, in this
\* order: one prompted read per input variable in input-variable order, or
\* exactly one comment line when there is no input variable; then, for
\* each assignment in resolved order, the assignment line immediately
\* followed by the line printing that target; then the dialect's closing
\* line, and nothing else.
C18_SnippetBody ==
    Returned =>
        LET al == Lines(algo_snippet)
            pl == Lines(pascal_snippet)
            n  == Len(input_vars)
            m  == Len(ordered_assignments)
            k  == InputBlockLen
        IN  /\ Len(al) = AlgoHeaderLen + k + 2 * m + 1
            /\ Len(pl) = PascalHeaderLen + k + 2 * m + 1
            /\ \A i \in 1..n :
                   /\ <<al[AlgoHeaderLen + i]>> = AlgoInputLine(input_vars[i])
                   /\ <<pl[PascalHeaderLen + i]>> = PascalInputLine(input_vars[i])
            /\ n = 0 => /\ al[AlgoHeaderLen + 1] = AlgoNoInputLine
                        /\ pl[PascalHeaderLen + 1] = PascalNoInputLine
            /\ \A j \in 1..m :
                   /\ ordered_assignments[j].lhs = ordered_lhs[j]
                   /\ al[AlgoHeaderLen + k + 2 * j - 1]
                        = AlgoAssignLine(ordered_lhs[j], ordered_assignments[j].rhs)
                   /\ al[AlgoHeaderLen + k + 2 * j] = AlgoPrintLine(ordered_lhs[j])
                   /\ pl[PascalHeaderLen + k + 2 * j - 1]
                        = PascalAssignLine(ordered_lhs[j], ordered_assignments[j].rhs)
                   /\ pl[PascalHeaderLen + k + 2 * j] = PascalPrintLine(ordered_lhs[j])
            /\ al[Len(al)] = <<"F","i","n",".">>
            /\ pl[Len(pl)] = <<"e","n","d",".">>

C18_Witness ==
    /\ Returned
    /\ Len(input_vars) >= 2
    /\ Len(ordered_assignments) >= 2
    /\ ordered_lhs # Targets
    /\ Len(Lines(algo_snippet)) = AlgoHeaderLen + Len(input_vars) + 2 * Len(ordered_lhs) + 1

\* ---------------------------------------------------------------------
\* Identifier extraction.

\* End of the longest run of ASCII letters, digits and underscores from i.
RECURSIVE AsciiMatchEnd(_, _)
AsciiMatchEnd(s, i) ==
    IF i <= Len(s) /\ s[i] \in AsciiLetters \cup Digits \cup {"_"}
    THEN AsciiMatchEnd(s, i + 1) ELSE i

\* Leftmost maximal substrings of s matching [A-Za-z_][A-Za-z0-9_]* when
\* only ASCII characters count as word characters.
RECURSIVE AsciiFindAllFrom(_, _)
AsciiFindAllFrom(s, i) ==
    IF i > Len(s) THEN <<>>
    ELSE IF IsIdentStart(s[i])
         THEN LET e == AsciiMatchEnd(s, i + 1)
              IN  <<SubSeq(s, i, e - 1)>> \o AsciiFindAllFrom(s, e)
         ELSE AsciiFindAllFrom(s, i + 1)

\* First occurrences of the non-reserved names of a sequence, in order.
RECURSIVE FirstSeen(_, _)
FirstSeen(names, seen) ==
    IF names = <<>> THEN <<>>
    ELSE IF Head(names) \in seen \/ IsReservedName(Head(names))
         THEN FirstSeen(Tail(names), seen)
         ELSE <<Head(names)>> \o FirstSeen(Tail(names), seen \cup {Head(names)})

AsciiIdentifiers(texts) ==
    FirstSeen(Flatten([i \in DOMAIN texts |-> AsciiFindAllFrom(texts[i], 1)]), {})

\* C19: over the right-hand sides followed by the targets, the extracted
\* identifiers are the maximal ASCII matches of [A-Za-z_][A-Za-z0-9_]*
\* (a non-ASCII character never belongs to one), without reserved words,
\* each once, in first-seen order.
C19_AsciiIdentifiers ==
    Returned =>
        LET texts == rhs_texts_of(assignments) \o assigned_vars_of(assignments)
            found == ordered_identifiers(texts)
        IN  /\ \A i \in DOMAIN found : IsIdentifierName(found[i])
            /\ found = AsciiIdentifiers(texts)

\* ---------------------------------------------------------------------
\* Numeral detection.

\* detect_number_system has returned its pair.
Detected == call = "detect" /\ npc \in {"convert", "done"}

DetectRejected == call = "detect" /\ npc = "failed"

\* The text after trimming, removing one leading sign and every "_".
NumeralBody(r) ==
    LET stripped == Strip(r)
    IN  IF stripped = <<>> THEN <<>> ELSE RemoveUnderscores(DropSign(stripped))

\* -1 when the trimmed text starts with "-", 1 otherwise.
SignFactor(r) ==
    IF Strip(r) # <<>> /\ Strip(r)[1] = "-" THEN 0 - 1 ELSE 1

\* The base a leading 0b, 0o or 0x (any case) stands for; 0 without one.
BaseOfPrefix(body) ==
    IF Len(body) < 2 \/ body[1] # "0" THEN 0
    ELSE IF body[2] \in {"b", "B"} THEN 2
    ELSE IF body[2] \in {"o", "O"} THEN 8
    ELSE IF body[2] \in {"x", "X"} THEN 16
    ELSE 0

HexLetters == {"A","B","C","D","E","F","a","b","c","d","e","f"}

OctalDigits == {"0","1","2","3","4","5","6","7"}

\* The priority of the claim: hex letters, then 8 or 9, then a binary
\* shape, then an octal shape, then decimal.
PriorityBase(body) ==
    IF Range(body) \cap HexLetters # {} THEN 16
    ELSE IF Range(body) \cap {"8", "9"} # {} THEN 10
    ELSE IF Range(body) \subseteq {"0", "1"} /\ Len(body) > 1 THEN 2
    ELSE IF Range(body) \subseteq OctalDigits /\ body[1] = "0" /\ Len(body) > 1 THEN 8
    ELSE 10

\* C13: when the body has no 0b/0o/0x prefix, the base returned is chosen
\* by the priority hex letter > 8 or 9 > only 0/1 and longer than one
\* character > only octal digits, leading 0 and longer than one character
\* > decimal; 7F gives (127, 16), 075 gives (61, 8), 42 gives (42, 10),
\* 10 gives (2, 2), and the single characters 0 and 1 are decimal.
C13_HeuristicPriority ==
    Detected =>
        /\ BaseOfPrefix(NumeralBody(raw)) = 0 => base = PriorityBase(NumeralBody(raw))
        /\ raw = <<"7","F">> => value = 127 /\ base = 16
        /\ raw = <<"0","7","5">> => value = 61 /\ base = 8
        /\ raw = <<"4","2">> => value = 42 /\ base = 10
        /\ raw = <<"1","0">> => value = 2 /\ base = 2
        /\ raw = <<"0">> => value = 0 /\ base = 10
        /\ raw = <<"1">> => value = 1 /\ base = 10

C13_Witness ==
    /\ Detected
    /\ npc = "done"
    /\ raw = <<"0","7","5">>
    /\ base = 8
    /\ value = 61

\* C14: when the body starts with 0b, 0o or 0x in any letter case the base
\* returned is 2, 8 or 16 whatever the characters that follow, a body of
\* digits of that base after the prefix is accepted, and the value is
\* those digits read in that base with the sign applied; 0b1010 gives
\* (10, 2).
C14_PrefixForcesBase ==
    call = "detect" =>
        LET body   == NumeralBody(raw)
            forced == BaseOfPrefix(body)
            digits == SubSeq(body, 3, Len(body))
        IN  forced # 0 =>
                /\ Detected =>
                      /\ base = forced
                      /\ AllDigitsIn(digits, forced) =>
                             value = SignFactor(raw) * DigitsValue(digits, forced)
                /\ (digits # <<>> /\ AllDigitsIn(digits, forced)) => ~ DetectRejected
                /\ (raw = <<"0","b","1","0","1","0">> /\ Detected) => value = 10 /\ base = 2

C14_Witness ==
    /\ Detected
    /\ npc = "done"
    /\ Len(raw) = 4
    /\ raw[1] = "-"
    /\ raw[3] = "B"
    /\ base = 2
    /\ value = 0 - 1

\* The failure the claim assigns to a text: EmptyInput for a blank text,
\* EmptyBody when nothing is left after the sign, the underscores or the
\* prefix, MalformedNumeral when a character left is not a digit of the
\* chosen base.  The code raises the same ValueError("empty") for both
\* empty cases.
ExpectedNumeralError(r) ==
    LET body   == NumeralBody(r)
        forced == BaseOfPrefix(body)
        digits == IF forced # 0 THEN SubSeq(body, 3, Len(body)) ELSE body
        b      == IF forced # 0 THEN forced ELSE PriorityBase(body)
    IN  IF Strip(r) = <<>> THEN EmptyNumeral
        ELSE IF digits = <<>> THEN EmptyNumeral
        ELSE IF ~ AllDigitsIn(digits, b) THEN MalformedNumeral
        ELSE NoError

\* C15: a pair is returned only if, after trimming, removing one leading
\* sign, every "_" and one recognised prefix, the body is non-empty and
\* made of digits of the chosen base only; a blank text fails with
\* EmptyInput, an empty body with EmptyBody, and a body with any other
\* character (a second sign, a second prefix, whitespace, a digit outside
\* the base) with MalformedNumeral.
C15_OnlyDigitBodies ==
    /\ Detected => ExpectedNumeralError(raw) = NoError
    /\ DetectRejected => nerror = ExpectedNumeralError(raw)

\* ---------------------------------------------------------------------
\* Conversion.

Converted == npc = "done"

\* The field without its leading "-".
Unsigned(field) ==
    IF field # <<>> /\ field[1] = "-" THEN Tail(field) ELSE field

\* Removing the leading "-" if present, reading the rest in the base and
\* re-applying the sign gives v.
RoundTrips(field, b, v) ==
    /\ Unsigned(field) # <<>>
    /\ AllDigitsIn(Unsigned(field), b)
    /\ v = (IF field[1] = "-" THEN 0 - 1 ELSE 1) * DigitsValue(Unsigned(field), b)

\* The one decimal writing str() produces: no leading zero, no "-0".
CanonicalDecimal(field) ==
    LET digits == Unsigned(field)
    IN  /\ Len(digits) > 1 => digits[1] # "0"
        /\ field[1] = "-" => digits # <<"0">>

\* C16: the binary, octal and hexadecimal fields of
\* convert_number_to_bases(v) each give v again when the leading "-" is
\* removed, the rest is read in base 2, 8 or 16 and the sign is
\* re-applied; the decimal field is str(v).
C16_RoundTrip ==
    Converted =>
        /\ RoundTrips(conversions.binary, 2, value)
        /\ RoundTrips(conversions.octal, 8, value)
        /\ RoundTrips(conversions.hexadecimal, 16, value)
        /\ RoundTrips(conversions.decimal, 10, value)
        /\ CanonicalDecimal(conversions.decimal)

C16_Witness ==
    /\ Converted
    /\ call = "number"
    /\ value = 0 - 255
    /\ conversions.hexadecimal = <<"-","F","F">>
    /\ conversions.binary = <<"-","1","1","1","1","1","1","1","1">>

\* A non-empty string of digits of the base, after exactly one "-" when
\* v is negative and after nothing otherwise.
SignedDigits(field, b, v) ==
    LET digits == IF v < 0 THEN Tail(field) ELSE field
    IN  /\ field # <<>>
        /\ v < 0 => field[1] = "-"
        /\ digits # <<>>
        /\ AllDigitsIn(digits, b)

\* C17: every field of convert_number_to_bases is a non-empty digit
\* string without base prefix, preceded by exactly one "-" when the value
\* is negative and by no sign otherwise; for 0 all four fields are "0".
C17_FieldShape ==
    Converted =>
        /\ SignedDigits(conversions.decimal, 10, value)
        /\ SignedDigits(conversions.binary, 2, value)
        /\ SignedDigits(conversions.octal, 8, value)
        /\ SignedDigits(conversions.hexadecimal, 16, value)
        /\ value = 0 =>
              /\ conversions.decimal = <<"0">>
              /\ conversions.binary = <<"0">>
              /\ conversions.octal = <<"0">>
              /\ conversions.hexadecimal = <<"0">>

C17_Witness ==
    /\ Converted
    /\ call = "detect"
    /\ value = 0
    /\ raw = <<"-","0","x","0">>
    /\ conversions.hexadecimal = <<"0">>

\* ---------------------------------------------------------------------
\* Origin of the input variables and stability of the resolution.

\* The identifiers occurring in some right-hand side of the batch.
RhsNames == UNION { NamedIn(assignments[k].rhs) : k \in DOMAIN assignments }

\* C21: every input variable the generated code declares and reads is an
\* identifier occurring in at least one right-hand side of the batch; the
\* text on the left of "=" never gives an input variable, whatever it
\* looks like.
C21_InputsFromRhsOnly ==
    Returned => \A i \in DOMAIN input_vars : input_vars[i] \in RhsNames

\* Every assigned target a statement names is the target of an earlier
\* statement.
InDependencyOrder ==
    \A i \in DOMAIN assignments : Refs(i) \subseteq {Targets[j] : j \in 1..(i - 1)}

\* C22: a batch of distinct identifier targets already written in a valid
\* dependency order is resolved to its input order, statement for
\* statement; statements without assigned dependencies keep their
\* relative order.
C22_StableResolution ==
    (Returned /\ DistinctIdentifierTargets /\ InDependencyOrder) =>
        /\ ordered_lhs = Targets
        /\ Len(ordered_assignments) = Len(assignments)
        /\ \A i \in DOMAIN assignments :
              /\ ordered_assignments[i].lhs = assignments[i].lhs
              /\ ordered_assignments[i].rhs = assignments[i].rhs

\* Three statements in dependency order, the first two independent of
\* every target and the third depending on one of them, kept as written.
C22_Witness ==
    /\ Returned /\ DistinctIdentifierTargets /\ InDependencyOrder
    /\ Len(assignments) = 3
    /\ Refs(1) = {} /\ Refs(2) = {} /\ Refs(3) # {}
    /\ ordered_lhs = Targets


----------------------------------------------------------------------------
(* Properties of the bot's handlers                                        *)

\* This step is the return of handle_text for user u.
TextReturned(u) ==
    /\ handler'[u] = "text"
    /\ tpc'[u] = "idle"
    /\ handled'[u] # handled[u] \/ tpc[u] = "release"

ResultSent(u) ==
    sent'[u] \in { <<"number_result", "menu">>, <<"detect_result", "menu">>,
                   <<"expression_result", "menu">> }

ErrorSent(u) ==
    sent'[u] \in { <<"invalid_number">>, <<"invalid_detect">>,
                   <<"invalid_expression">> }

C23_Step(u) ==
    (TextReturned(u) /\ ~ chat[u].awaiting_language) =>
        /\ ResultSent(u) => chat'[u].mode = "none"
        /\ ErrorSent(u) => chat'[u].mode = chat[u].mode
        /\ chat'[u].mode # chat[u].mode => ResultSent(u)

\* C23: when handle_text returns and no language choice was pending, the
\* mode is cleared if a result was sent, it is what it was if the text was
\* rejected with an error reply, and it changes only when a result was sent.
C23_ModeKeptOnRejection == [][\A u \in Users : C23_Step(u)]_vars

Registered(d) == {u \in Users : d.users[u] # NoEntry}

C24_Step ==
    /\ Len(file.admins) <= 1
    /\ Len(file'.admins) <= 1
    /\ file.admins = <<>> <=> Registered(file) = {}
    /\ file.admins # <<>> => file'.admins = file.admins
    /\ (file.admins = <<>> /\ file'.admins # <<>>) =>
           \E u \in Users :
               /\ tpc[u] = "write" /\ section[u] = "store"
               /\ file'.admins = <<u>>
               /\ Registered(file') = {u}
    /\ \A u \in Users :
           (tpc[u] = "release" /\ sent'[u] = <<"admin_users">>) => InSeq(u, file.admins)

\* C24: the stored admins list has at most one member, it is empty exactly
\* while no user has a stored language, the save that stores the first
\* language makes that user the only admin, no later step changes the
\* list, and admin_command answers with the user list only to a user in
\* the list.
C24_SingleFirstAdmin == [][C24_Step]_vars

C24_Witness ==
    /\ file.admins = <<1>>
    /\ Registered(file) = {1, 2}
    /\ sent[1] = <<"admin_users">>
    /\ sent[2] = <<"admin_denied">>

InSection(u) == tpc[u] \in {"load", "write", "release"}

C25_Step ==
    /\ \A u \in Users : InSection(u) => lock = u
    /\ \A u, v \in Users : (InSection(u) /\ InSection(v)) => u = v
    /\ file' # file => \E u \in Users : tpc[u] = "write" /\ lock = u
    /\ \A u \in Users :
           file'.users[u] # file.users[u] =>
               /\ tpc[u] = "write"
               /\ file'.users[u] # NoEntry
               /\ file'.users[u].username = UserName(u)

\* C25: a task is between the load and the end of a locked section only
\* while it holds DATA_LOCK, no two tasks are there at once, the file
\* changes only in the save of the task that holds the lock, and a user's
\* stored entry changes only in that user's own save, which never removes
\* it.
C25_LockedSections == [][C25_Step]_vars

C25_Witness ==
    /\ tpc[1] = "release" /\ section[1] = "store" /\ lock = 1
    /\ tpc[2] = "acquire" /\ section[2] = "store"
    /\ file.users[1] = [language |-> "fr", username |-> "alice"]
    /\ file.users[2] = [language |-> "ar", username |-> "bob"]


====
